---- MODULE Spec2Model ----
(***************************************************************************)
(* Attribute handlers of the Fastly provider: the ACL, Logentries and      *)
(* Package blocks of a service.  Process reconciles the declared blocks    *)
(* (old, new) against one version of the remote service, Read lists the    *)
(* active version and normalizes it into the caller's state.               *)
(***************************************************************************)
EXTENDS Integers, Sequences, FiniteSets, TLC

VARIABLES h, d, s, remote, cur, prev, calls

vars == <<h, d, s, remote, cur, prev, calls>>

\* Number of handler calls (Process or Read) one behaviour makes.
MaxCalls == 2

Handlers == {"acl", "logentries", "package"}
Versions == {1, 2}
ServiceIDs == {"s1", "s2"}
Scopes == ServiceIDs \X Versions

(***************************************************************************)
(* Go values                                                               *)
(***************************************************************************)
\* An interface{} value: its dynamic type and its value.
Str(v) == [type |-> "string", val |-> v]
Uint(v) == [type |-> "uint", val |-> v]
Bool(v) == [type |-> "bool", val |-> v]

\* error values: nil, *gofastly.HTTPError with its StatusCode, any other error.
ErrNil == [kind |-> "nil"]
HTTPError(code) == [kind |-> "http", StatusCode |-> code]
NetError == [kind |-> "net"]

\* d.GetChange may hand back nil instead of a *schema.Set.
Nil == {[nil |-> TRUE]}

(***************************************************************************)
(* Declared blocks                                                         *)
(***************************************************************************)
LogentriesBlocks ==
  { [name |-> "a", port |-> 20000, use_tls |-> TRUE, token |-> "t",
     format |-> "%h", format_version |-> 1, response_condition |-> "",
     placement |-> ""],
    [name |-> "a", port |-> 0, use_tls |-> FALSE, token |-> "t",
     format |-> "", format_version |-> 0, response_condition |-> "c",
     placement |-> "none"],
    [name |-> "b", port |-> 20000, use_tls |-> TRUE, token |-> "u",
     format |-> "", format_version |-> 2, response_condition |-> "",
     placement |-> "waf_debug"] }

ACLBlocks ==
  { [name |-> "a", acl_id |-> "i1"],
    [name |-> "b", acl_id |-> ""] }

PackageBlocks ==
  { [filename |-> "p1.tar.gz", source_code_hash |-> ""],
    [filename |-> "p2.tar.gz", source_code_hash |-> "h2"] }

KeyUnique(blocks) == \A x, y \in blocks : x.name = y.name => x = y

(***************************************************************************)
(* schema.Set                                                              *)
(***************************************************************************)
\* Faulty variant: blocks are compared by key only.
DifferenceByKey(a, b) == {x \in a : \A y \in b : y.name # x.name}

\* Faulty variant: nothing is taken away, every block of a is in the diff.
DifferenceAll(a, b) == a

\* oss.Difference(nss): the blocks of a that are not in b.
Difference(a, b) == a \ b

\* Faulty variant: a nil collection is read as a collection of one block.
OrEmptyNilAsOne(v) ==
  IF v = Nil
  THEN {CHOOSE b \in (IF h = "acl" THEN ACLBlocks ELSE LogentriesBlocks) : TRUE}
  ELSE v

\* new(schema.Set) for a nil collection.
OrEmpty(v) == IF v = Nil THEN {} ELSE v

\* Set.List(): the elements in an order the caller does not choose.
RECURSIVE ListsOf(_)
ListsOf(S) ==
  IF S = {} THEN {<<>>}
  ELSE UNION {{<<x>> \o l : l \in ListsOf(S \ {x})} : x \in S}

(***************************************************************************)
(* The remote service: per (service id, version), the entities it holds.   *)
(***************************************************************************)
\* What the API answers to a request: fault is the failure the transport or
\* the server injects (ErrNil: the request is served).  A delete of a name the
\* version does not hold is answered 404, a create of a name it holds 409.
Names(R) == {e.Name : e \in R}

ClientDelete(rem, opts, fault) ==
  LET sc == <<opts.ServiceID, opts.ServiceVersion>>
  IN IF fault # ErrNil THEN [remote |-> rem, err |-> fault]
     ELSE IF opts.Name \in Names(rem[sc])
          THEN [remote |-> [rem EXCEPT ![sc] = {e \in rem[sc] : e.Name # opts.Name}],
                err |-> ErrNil]
          ELSE [remote |-> rem, err |-> HTTPError(404)]

ClientCreate(rem, opts, entity, fault) ==
  LET sc == <<opts.ServiceID, opts.ServiceVersion>>
  IN IF fault # ErrNil THEN [remote |-> rem, err |-> fault]
     ELSE IF opts.Name \in Names(rem[sc])
          THEN [remote |-> rem, err |-> HTTPError(409)]
          ELSE [remote |-> [rem EXCEPT ![sc] = rem[sc] \cup {entity}],
                err |-> ErrNil]

(***************************************************************************)
(* Process: the delete loop, then the create loop                          *)
(***************************************************************************)
\* The failure injected into the i-th request of a call.  A delete is never
\* answered not-found for an entity the version holds.
NoFault == [at |-> 0, err |-> ErrNil]
DeleteFaults == {HTTPError(500), NetError}
CreateFaults == {HTTPError(404), NetError}
PlansFor(nDeletes, nCreates) ==
  {NoFault}
    \cup {[at |-> i, err |-> e] : i \in 1..nDeletes, e \in DeleteFaults}
    \cup {[at |-> nDeletes + i, err |-> e] : i \in 1..nCreates, e \in CreateFaults}
FaultAt(plan, i) == IF plan.at = i THEN plan.err ELSE ErrNil

\* Faulty variant: every error of a delete aborts, not-found included.
DeleteAbortsOnAny(err) == err # ErrNil

\* Faulty variant: the else branch is missing, an error that is no HTTPError
\* is dropped.
DeleteAbortsOnHTTPOnly(err) == err.kind = "http" /\ err.StatusCode # 404

\* if errRes, ok := err.(*gofastly.HTTPError); ok { if errRes.StatusCode != 404
\* { return err } } else if err != nil { return err }
DeleteAborts(err) ==
  IF err.kind = "http" THEN err.StatusCode # 404 ELSE err # ErrNil

\* Faulty variant: a not-found answer to a create is absorbed as well.
CreateAbortsExcept404(err) ==
  IF err.kind = "http" THEN err.StatusCode # 404 ELSE err # ErrNil

\* _, err := conn.Create...(&opts); if err != nil { return err }
CreateAborts(err) == err # ErrNil

Entry(op, opts, err, fault) ==
  [op |-> op, opts |-> opts, err |-> err, injected |-> (fault # ErrNil)]

\* Faulty variant: a delete that failed is issued a second time.
RECURSIVE DeleteLoopRetry(_, _, _)
DeleteLoopRetry(st, removeOpts, plan) ==
  IF removeOpts = <<>> THEN st
  ELSE LET opts == Head(removeOpts)
           fault == FaultAt(plan, Len(st.trace) + 1)
           resp == ClientDelete(st.remote, opts, fault)
           st1 == [remote |-> resp.remote,
                   trace |-> Append(st.trace, Entry("delete", opts, resp.err, fault)),
                   err |-> ErrNil]
           again == ClientDelete(st1.remote, opts, ErrNil)
           st2 == [remote |-> again.remote,
                   trace |-> Append(st1.trace, Entry("delete", opts, again.err, ErrNil)),
                   err |-> ErrNil]
       IN IF DeleteAborts(resp.err)
          THEN IF DeleteAborts(again.err)
               THEN [st2 EXCEPT !.err = again.err]
               ELSE DeleteLoopRetry(st2, Tail(removeOpts), plan)
          ELSE DeleteLoopRetry(st1, Tail(removeOpts), plan)

\* for _, pRaw := range remove...: one delete per element, in list order.
RECURSIVE DeleteLoop(_, _, _)
DeleteLoop(st, removeOpts, plan) ==
  IF removeOpts = <<>> THEN st
  ELSE LET opts == Head(removeOpts)
           fault == FaultAt(plan, Len(st.trace) + 1)
           resp == ClientDelete(st.remote, opts, fault)
           st1 == [remote |-> resp.remote,
                   trace |-> Append(st.trace, Entry("delete", opts, resp.err, fault)),
                   err |-> ErrNil]
       IN IF DeleteAborts(resp.err)
          THEN [st1 EXCEPT !.err = resp.err]
          ELSE DeleteLoop(st1, Tail(removeOpts), plan)

\* The entity the server makes of a create request.
ServerACLID == "i1"
EntityOf(opts) ==
  IF "Token" \in DOMAIN opts
  THEN [Name |-> opts.Name, Port |-> opts.Port, UseTLS |-> opts.UseTLS,
        Token |-> opts.Token, Format |-> opts.Format,
        FormatVersion |-> opts.FormatVersion,
        ResponseCondition |-> opts.ResponseCondition,
        Placement |-> opts.Placement]
  ELSE [ID |-> ServerACLID, Name |-> opts.Name]

\* Faulty variant: a block of add is written with an update-in-place request.
RECURSIVE CreateLoopAsUpdate(_, _, _)
CreateLoopAsUpdate(st, addOpts, plan) ==
  IF addOpts = <<>> THEN st
  ELSE LET opts == Head(addOpts)
           fault == FaultAt(plan, Len(st.trace) + 1)
           resp == ClientCreate(st.remote, opts, EntityOf(opts), fault)
           st1 == [remote |-> resp.remote,
                   trace |-> Append(st.trace, Entry("update", opts, resp.err, fault)),
                   err |-> ErrNil]
       IN IF CreateAborts(resp.err)
          THEN [st1 EXCEPT !.err = resp.err]
          ELSE CreateLoopAsUpdate(st1, Tail(addOpts), plan)

\* for _, pRaw := range add...: one create per element, in list order.
RECURSIVE CreateLoop(_, _, _)
CreateLoop(st, addOpts, plan) ==
  IF addOpts = <<>> THEN st
  ELSE LET opts == Head(addOpts)
           fault == FaultAt(plan, Len(st.trace) + 1)
           resp == ClientCreate(st.remote, opts, EntityOf(opts), fault)
           st1 == [remote |-> resp.remote,
                   trace |-> Append(st.trace, Entry("create", opts, resp.err, fault)),
                   err |-> ErrNil]
       IN IF CreateAborts(resp.err)
          THEN [st1 EXCEPT !.err = resp.err]
          ELSE CreateLoop(st1, Tail(addOpts), plan)

\* Faulty variant: the new blocks are posted before the old ones are deleted.
CreateThenDelete(st, removeOpts, addOpts, plan) ==
  LET st1 == CreateLoop(st, addOpts, plan)
  IN IF st1.err # ErrNil THEN st1 ELSE DeleteLoop(st1, removeOpts, plan)

\* The body of Process after the diff: DELETE old, then POST new, return nil.
DeleteThenCreate(st, removeOpts, addOpts, plan) ==
  LET st1 == DeleteLoop(st, removeOpts, plan)
  IN IF st1.err # ErrNil THEN st1 ELSE CreateLoop(st1, addOpts, plan)

(***************************************************************************)
(* Request shapes                                                          *)
(***************************************************************************)
\* Faulty variant: the delete addresses the active version, not the latest.
DeleteInputActive(dd, latestVersion, blk) ==
  [ServiceID |-> dd.id, ServiceVersion |-> s.ActiveVersion.Number,
   Name |-> blk.name]

\* gofastly.DeleteLogentriesInput{...} / gofastly.DeleteACLInput{...}
DeleteInput(dd, latestVersion, blk) ==
  [ServiceID |-> dd.id, ServiceVersion |-> latestVersion, Name |-> blk.name]

\* h.getVCLLoggingAttributes(slf) of a VCL service: the four VCL-only fields.
getVCLLoggingAttributes(slf) ==
  [format |-> slf.format, formatVersion |-> slf.format_version,
   placement |-> slf.placement, responseCondition |-> slf.response_condition]

uintOrDefault(v) == v

\* Faulty variant: the create request leaves the placement out.
CreateLogentriesInputNoPlacement(dd, latestVersion, slf) ==
  LET vla == getVCLLoggingAttributes(slf)
  IN [ServiceID |-> dd.id, ServiceVersion |-> latestVersion,
      Name |-> slf.name, Port |-> slf.port, UseTLS |-> slf.use_tls,
      Token |-> slf.token, Format |-> vla.format,
      FormatVersion |-> uintOrDefault(vla.formatVersion),
      Placement |-> "",
      ResponseCondition |-> vla.responseCondition]

\* gofastly.CreateLogentriesInput{...}
CreateLogentriesInput(dd, latestVersion, slf) ==
  LET vla == getVCLLoggingAttributes(slf)
  IN [ServiceID |-> dd.id, ServiceVersion |-> latestVersion,
      Name |-> slf.name, Port |-> slf.port, UseTLS |-> slf.use_tls,
      Token |-> slf.token, Format |-> vla.format,
      FormatVersion |-> uintOrDefault(vla.formatVersion),
      Placement |-> vla.placement,
      ResponseCondition |-> vla.responseCondition]

\* gofastly.CreateACLInput{...}
CreateACLInput(dd, latestVersion, val) ==
  [ServiceID |-> dd.id, ServiceVersion |-> latestVersion, Name |-> val.name]

\* gofastly.UpdatePackageInput{...}
UpdatePackageInput(dd, latestVersion, packageFilename) ==
  [ServiceID |-> dd.id, ServiceVersion |-> latestVersion,
   PackagePath |-> packageFilename]

\* The list/get request of Read.
ListInput(dd, sd) ==
  [ServiceID |-> dd.id, ServiceVersion |-> sd.ActiveVersion.Number]

(***************************************************************************)
(* The record of a call                                                    *)
(***************************************************************************)
NoCall ==
  [op |-> "none", ver |-> 0, rm |-> <<>>, add |-> <<>>, trace |-> <<>>,
   err |-> ErrNil, pre |-> <<>>, dpre |-> <<>>, listed |-> <<>>,
   flat |-> <<>>, log |-> <<>>]

BlocksOf(kind) == IF kind = "acl" THEN ACLBlocks ELSE LogentriesBlocks

\* The entity a version holds for a declared block.
EntityOfBlock(kind, blk) ==
  IF kind = "acl"
  THEN EntityOf(CreateACLInput([id |-> "s1"], 1, blk))
  ELSE EntityOf(CreateLogentriesInput([id |-> "s1"], 1, blk))

EntitiesOf(kind, blocks) == {EntityOfBlock(kind, b) : b \in blocks}

\* Whether a version holds exactly one entity per declared block.
HoldsExactly(kind, R, blocks) ==
  KeyUnique(blocks) /\ R = EntitiesOf(kind, blocks)

Applied(trace, op) ==
  {i \in 1..Len(trace) : trace[i].op = op /\ trace[i].err = ErrNil}

\* What is remembered of the call before the current one.
NoSummary ==
  [op |-> "none", ver |-> 0, ok |-> TRUE, created |-> 0, synced |-> FALSE]

Summary(c) ==
  IF c.op = "none" THEN NoSummary
  ELSE [op |-> c.op, ver |-> c.ver, ok |-> (c.err = ErrNil),
        created |-> Cardinality(Applied(c.trace, "create")),
        synced |-> /\ c.op = "process"
                   /\ h # "package"
                   /\ HoldsExactly(h, c.pre[<<c.dpre.id, c.ver>>],
                                   OrEmpty(c.dpre.os))]

Start == [remote |-> remote, trace |-> <<>>, err |-> ErrNil]

ProcessCall(latestVersion, rm, add, st) ==
  [NoCall EXCEPT !.op = "process", !.ver = latestVersion, !.rm = rm,
                 !.add = add, !.trace = st.trace, !.err = st.err,
                 !.pre = remote, !.dpre = d]

(***************************************************************************)
(* LogentriesServiceAttributeHandler.Process                               *)
(***************************************************************************)
LogentriesProcess ==
  /\ h = "logentries"
  /\ calls < MaxCalls
  /\ \E latestVersion \in Versions :
       LET oss == OrEmpty(d.os)
           nss == OrEmpty(d.ns)
       IN \E removeLogentries \in ListsOf(Difference(oss, nss)),
             addLogentries \in ListsOf(Difference(nss, oss)) :
            \E plan \in PlansFor(Len(removeLogentries), Len(addLogentries)) :
              LET st == DeleteThenCreate(Start,
                          [i \in 1..Len(removeLogentries) |->
                             DeleteInput(d, latestVersion, removeLogentries[i])],
                          [i \in 1..Len(addLogentries) |->
                             CreateLogentriesInput(d, latestVersion, addLogentries[i])],
                          plan)
              IN /\ remote' = st.remote
                 /\ cur' = ProcessCall(latestVersion, removeLogentries,
                                       addLogentries, st)
  /\ prev' = Summary(cur)
  /\ calls' = calls + 1
  /\ UNCHANGED <<h, d, s>>

(***************************************************************************)
(* ACLServiceAttributeHandler.Process                                      *)
(***************************************************************************)
ACLProcess ==
  /\ h = "acl"
  /\ calls < MaxCalls
  /\ \E latestVersion \in Versions :
       LET oldACLSet == OrEmpty(d.os)
           newACLSet == OrEmpty(d.ns)
       IN \E remove \in ListsOf(Difference(oldACLSet, newACLSet)),
             add \in ListsOf(Difference(newACLSet, oldACLSet)) :
            \E plan \in PlansFor(Len(remove), Len(add)) :
              LET st == DeleteThenCreate(Start,
                          [i \in 1..Len(remove) |->
                             DeleteInput(d, latestVersion, remove[i])],
                          [i \in 1..Len(add) |->
                             CreateACLInput(d, latestVersion, add[i])],
                          plan)
              IN /\ remote' = st.remote
                 /\ cur' = ProcessCall(latestVersion, remove, add, st)
  /\ prev' = Summary(cur)
  /\ calls' = calls + 1
  /\ UNCHANGED <<h, d, s>>

(***************************************************************************)
(* PackageServiceAttributeHandler.Process                                  *)
(***************************************************************************)
\* d.Get / d.GetOk read what d.Set wrote, else the declared new value.
Get(dd) == IF dd.isSet THEN dd.set ELSE dd.ns

\* d.Set(key, value)
Set(dd, value) == [dd EXCEPT !.isSet = TRUE, !.set = value]

Errorf(msg, id, version, cause) ==
  [kind |-> "errorf", msg |-> msg, id |-> id, version |-> version,
   cause |-> cause]

HashOf(path) == IF path = "p1.tar.gz" THEN "h1" ELSE "h2"

ClientUpdatePackage(rem, opts, fault) ==
  LET sc == <<opts.ServiceID, opts.ServiceVersion>>
  IN IF fault # ErrNil THEN [remote |-> rem, err |-> fault]
     ELSE [remote |-> [rem EXCEPT ![sc] =
                         {[Metadata |-> [HashSum |-> HashOf(opts.PackagePath)]]}],
           err |-> ErrNil]

UpdateFaults == {ErrNil, HTTPError(500), NetError}

\* updatePackage: _, err := conn.UpdatePackage(i); return err
updatePackage(st, i, fault) ==
  LET resp == ClientUpdatePackage(st.remote, i, fault)
  IN [remote |-> resp.remote,
      trace |-> Append(st.trace, Entry("update", i, resp.err, fault)),
      err |-> resp.err]

PackageProcess ==
  /\ h = "package"
  /\ calls < MaxCalls
  /\ \E latestVersion \in Versions, fault \in UpdateFaults :
       LET v == Get(d)
           ok == v # <<>>
       IN IF ok
          THEN LET packageFilename == v[1].filename
                   st == updatePackage(Start,
                           UpdatePackageInput(d, latestVersion, packageFilename),
                           fault)
                   err == IF st.err # ErrNil
                          THEN Errorf("Error modifying package", d.id, 0, st.err)
                          ELSE ErrNil
               IN /\ remote' = st.remote
                  /\ cur' = ProcessCall(latestVersion, <<>>, <<>>,
                                        [st EXCEPT !.err = err])
          ELSE /\ remote' = remote
               /\ cur' = ProcessCall(latestVersion, <<>>, <<>>, Start)
  /\ prev' = Summary(cur)
  /\ calls' = calls + 1
  /\ UNCHANGED <<h, d, s>>

(***************************************************************************)
(* Normalizers                                                             *)
(***************************************************************************)
\* if v == "" : an interface value equals "" when it is a string and empty.
IsEmptyString(v) == v.type = "string" /\ v.val = ""

\* Faulty variant: every zero value is pruned, not only the empty string.
IsZero(v) ==
  \/ IsEmptyString(v)
  \/ v.type = "uint" /\ v.val = 0
  \/ v.type = "bool" /\ v.val = FALSE
PruneZero(m) == [k \in {k \in DOMAIN m : ~IsZero(m[k])} |-> m[k]]

\* for k, v := range m { if v == "" { delete(m, k) } }
Prune(m) == [k \in {k \in DOMAIN m : ~IsEmptyString(m[k])} |-> m[k]]

flattenLogentries(logentriesList) ==
  [i \in 1..Len(logentriesList) |->
     LET currentLE == logentriesList[i]
         LEMapString ==
           [name |-> Str(currentLE.Name),
            port |-> Uint(currentLE.Port),
            use_tls |-> Bool(currentLE.UseTLS),
            token |-> Str(currentLE.Token),
            format |-> Str(currentLE.Format),
            format_version |-> Uint(currentLE.FormatVersion),
            response_condition |-> Str(currentLE.ResponseCondition),
            placement |-> Str(currentLE.Placement)]
     IN Prune(LEMapString)]

flattenACLs(aclList) ==
  [i \in 1..Len(aclList) |->
     LET acl == aclList[i]
         vclMap == [acl_id |-> Str(acl.ID), name |-> Str(acl.Name)]
     IN Prune(vclMap)]

\* Faulty variant: the declared filename is not carried into the mapping.
flattenPackageNoFilename(Package, filename) ==
  <<[source_code_hash |-> Package.Metadata.HashSum, filename |-> ""]>>

flattenPackage(Package, filename) ==
  <<[source_code_hash |-> Package.Metadata.HashSum, filename |-> filename]>>

(***************************************************************************)
(* Read                                                                    *)
(***************************************************************************)
ReadFaults == {ErrNil, HTTPError(500), NetError}

Warn(msg, id) == [level |-> "WARN", msg |-> msg, id |-> id]

\* Faulty variant: the error of d.Set is returned instead of logged.
ReadOutcomeStrict(dd, sd, what, err, setFails, value) ==
  IF err # ErrNil
  THEN [d |-> dd, log |-> <<>>,
        err |-> Errorf(what, dd.id, sd.ActiveVersion.Number, err)]
  ELSE IF setFails
       THEN [d |-> dd, log |-> <<>>,
             err |-> Errorf(what, dd.id, sd.ActiveVersion.Number, NetError)]
       ELSE [d |-> Set(dd, value), log |-> <<>>, err |-> ErrNil]

\* What Read does with the answer of the list/get request: a failed request is
\* returned wrapped; a failed d.Set is logged and nil is returned.
ReadOutcome(dd, sd, what, err, setFails, value) ==
  IF err # ErrNil
  THEN [d |-> dd, log |-> <<>>,
        err |-> Errorf(what, dd.id, sd.ActiveVersion.Number, err)]
  ELSE IF setFails
       THEN [d |-> dd, log |-> <<Warn(what, dd.id)>>, err |-> ErrNil]
       ELSE [d |-> Set(dd, value), log |-> <<>>, err |-> ErrNil]

ReadCall(opts, resp, fault, listed, flat, out) ==
  [NoCall EXCEPT !.op = "read", !.ver = opts.ServiceVersion,
                 !.trace = <<Entry("list", opts, resp, fault)>>,
                 !.err = out.err, !.pre = remote, !.dpre = d,
                 !.listed = listed, !.flat = flat, !.log = out.log]

Range(f) == {f[i] : i \in DOMAIN f}

LogentriesRead ==
  /\ h = "logentries"
  /\ calls < MaxCalls
  /\ \E fault \in ReadFaults, setFails \in BOOLEAN :
       LET opts == ListInput(d, s)
           sc == <<opts.ServiceID, opts.ServiceVersion>>
       IN \E logentriesList \in
               IF fault = ErrNil THEN ListsOf(remote[sc]) ELSE {<<>>} :
            LET lel == flattenLogentries(logentriesList)
                out == ReadOutcome(d, s, "Error looking up Logentries", fault,
                                   setFails, Range(lel))
            IN /\ d' = out.d
               /\ cur' = ReadCall(opts, fault, fault, logentriesList, lel, out)
  /\ prev' = Summary(cur)
  /\ calls' = calls + 1
  /\ UNCHANGED <<h, s, remote>>

ACLRead ==
  /\ h = "acl"
  /\ calls < MaxCalls
  /\ \E fault \in ReadFaults, setFails \in BOOLEAN :
       LET opts == ListInput(d, s)
           sc == <<opts.ServiceID, opts.ServiceVersion>>
       IN \E aclList \in IF fault = ErrNil THEN ListsOf(remote[sc]) ELSE {<<>>} :
            LET al == flattenACLs(aclList)
                out == ReadOutcome(d, s, "Error looking up ACLs", fault,
                                   setFails, Range(al))
            IN /\ d' = out.d
               /\ cur' = ReadCall(opts, fault, fault, aclList, al, out)
  /\ prev' = Summary(cur)
  /\ calls' = calls + 1
  /\ UNCHANGED <<h, s, remote>>

\* conn.GetPackage: not found when the version holds no package.
ClientGetPackage(rem, opts, fault) ==
  LET sc == <<opts.ServiceID, opts.ServiceVersion>>
  IN IF fault # ErrNil THEN fault
     ELSE IF rem[sc] = {} THEN HTTPError(404) ELSE ErrNil

PackageRead ==
  /\ h = "package"
  /\ calls < MaxCalls
  /\ \E fault \in ReadFaults, setFails \in BOOLEAN :
       LET opts == ListInput(d, s)
           sc == <<opts.ServiceID, opts.ServiceVersion>>
           err == ClientGetPackage(remote, opts, fault)
       IN \E Package \in IF err = ErrNil THEN remote[sc] ELSE {<<>>} :
            LET v == Get(d)
                filename == IF v = <<>> THEN "" ELSE v[1].filename
                wp == IF err = ErrNil THEN flattenPackage(Package, filename)
                      ELSE <<>>
                out == ReadOutcome(d, s, "Error looking up Package", err,
                                   setFails, wp)
            IN /\ d' = out.d
               /\ cur' = ReadCall(opts, err, fault,
                                  IF err = ErrNil THEN <<Package>> ELSE <<>>,
                                  wp, out)
  /\ prev' = Summary(cur)
  /\ calls' = calls + 1
  /\ UNCHANGED <<h, s, remote>>

(***************************************************************************)
(* The system                                                              *)
(***************************************************************************)
Declared(os, ns, empty) ==
  [id |-> "s1", os |-> os, ns |-> ns, isSet |-> FALSE, set |-> empty]

\* The declared collections are any two collections of blocks (or nil); every
\* version of the service starts with the entities of some of the old blocks,
\* one per name: all of them, or fewer when some were removed out of band.
InitSets ==
  /\ h \in {"acl", "logentries"}
  /\ \E os, ns \in {Nil} \cup SUBSET BlocksOf(h) : d = Declared(os, ns, {})
  /\ \E held \in {B \in SUBSET OrEmpty(d.os) : KeyUnique(B)} :
       remote = [sc \in Scopes |-> EntitiesOf(h, held)]

PackageLists == {<<>>} \cup {<<b>> : b \in PackageBlocks}

InitPackage ==
  /\ h = "package"
  /\ \E os, ns \in PackageLists : d = Declared(os, ns, <<>>)
  /\ \E held \in {{}, {[Metadata |-> [HashSum |-> "h1"]]}} :
       remote = [sc \in Scopes |-> held]

Init ==
  /\ InitSets \/ InitPackage
  /\ s \in {[ActiveVersion |-> [Number |-> n]] : n \in Versions}
  /\ cur = NoCall
  /\ prev = NoSummary
  /\ calls = 0

Next ==
  \/ LogentriesProcess
  \/ ACLProcess
  \/ PackageProcess
  \/ LogentriesRead
  \/ ACLRead
  \/ PackageRead

Spec == Init /\ [][Next]_vars

(***************************************************************************)
(* Properties                                                              *)
(***************************************************************************)
\* The current call is a Process of the ACL or Logentries handler.
SetProcess == cur.op = "process" /\ h \in {"acl", "logentries"}

Old == OrEmpty(cur.dpre.os)
New == OrEmpty(cur.dpre.ns)
Target == <<cur.dpre.id, cur.ver>>
Requests == 1..Len(cur.trace)
NoneInjected == \A i \in Requests : ~cur.trace[i].injected
DeletedNames == {cur.trace[i].opts.Name : i \in Applied(cur.trace, "delete")}
CreatedEntities ==
  {EntityOf(cur.trace[i].opts) : i \in Applied(cur.trace, "create")}

\* C1: in one Process call of the ACL or Logentries handler every delete is
\* issued before the first create: no create is followed by a delete.
C1_DeletesBeforeCreates ==
  SetProcess =>
    \A i, j \in Requests :
      (i < j /\ cur.trace[i].op = "create") => cur.trace[j].op # "delete"

C1_Witness ==
  /\ SetProcess
  /\ cur.err = ErrNil
  /\ Applied(cur.trace, "delete") # {}
  /\ Applied(cur.trace, "create") # {}

\* C2: the blocks Process deletes are exactly old minus new and the blocks it
\* creates exactly new minus old, blocks compared field by field; a call that
\* returns nil has issued one delete per removed block and then one create per
\* added block, and with old equal to new it issues no request at all.
C2_DiffExact ==
  SetProcess =>
    LET toRemove == {b \in Old : b \notin New}
        toAdd == {b \in New : b \notin Old}
    IN /\ Range(cur.rm) = toRemove
       /\ Len(cur.rm) = Cardinality(toRemove)
       /\ Range(cur.add) = toAdd
       /\ Len(cur.add) = Cardinality(toAdd)
       /\ Len(cur.trace) <= Len(cur.rm) + Len(cur.add)
       /\ \A i \in Requests :
            IF i <= Len(cur.rm)
            THEN /\ cur.trace[i].op = "delete"
                 /\ cur.trace[i].opts.Name = cur.rm[i].name
            ELSE /\ cur.trace[i].op = "create"
                 /\ cur.trace[i].opts.Name = cur.add[i - Len(cur.rm)].name
                 /\ EntityOf(cur.trace[i].opts)
                      = EntityOfBlock(h, cur.add[i - Len(cur.rm)])
       /\ cur.err = ErrNil => Len(cur.trace) = Len(cur.rm) + Len(cur.add)
       /\ Old = New => cur.trace = <<>>

C2_Witness ==
  /\ SetProcess
  /\ cur.err = ErrNil
  /\ \E x \in Old, y \in New : x.name = y.name /\ x # y /\ x \notin New /\ y \notin Old
  /\ Old \cap New # {}
  /\ Len(cur.trace) = 2

\* C3: a delete answered not-found (HTTP 404) counts as done: Process goes on
\* with the remaining deletes and the creates, and returns nil when every other
\* request succeeds.
C3_NotFoundAbsorbed ==
  SetProcess =>
    /\ \A i \in Requests :
         (cur.trace[i].op = "delete" /\ cur.trace[i].err = HTTPError(404))
           => (i < Len(cur.trace) \/ cur.err = ErrNil)
    /\ (\A i \in Requests :
          \/ cur.trace[i].err = ErrNil
          \/ cur.trace[i].op = "delete" /\ cur.trace[i].err = HTTPError(404))
         => /\ cur.err = ErrNil
            /\ Len(cur.trace) = Len(cur.rm) + Len(cur.add)

C3_Witness ==
  /\ SetProcess
  /\ cur.err = ErrNil
  /\ Len(cur.trace) = 3
  /\ cur.trace[1].op = "delete" /\ cur.trace[1].err = HTTPError(404)
  /\ cur.trace[2].op = "delete" /\ cur.trace[2].err = ErrNil
  /\ cur.trace[3].op = "create" /\ cur.trace[3].err = ErrNil

\* C4: a delete that fails with anything but not-found ends the call with that
\* error: it is the last request, no create was issued, and the version holds
\* what it held before less the entities already deleted.
C4_DeleteFailureAborts ==
  SetProcess =>
    \A i \in Requests :
      (/\ cur.trace[i].op = "delete"
       /\ cur.trace[i].err \notin {ErrNil, HTTPError(404)})
        => /\ i = Len(cur.trace)
           /\ cur.err = cur.trace[i].err
           /\ \A j \in Requests : cur.trace[j].op = "delete"
           /\ remote = [cur.pre EXCEPT
                          ![Target] = {e \in @ : e.Name \notin DeletedNames}]

C4_Witness ==
  /\ SetProcess
  /\ Len(cur.trace) = 2
  /\ Len(cur.rm) = 2
  /\ cur.add # <<>>
  /\ cur.trace[1].op = "delete" /\ cur.trace[1].err = ErrNil
  /\ cur.trace[2].op = "delete" /\ cur.trace[2].err = NetError
  /\ remote # cur.pre

\* C5: a create that fails with any error, not-found included, ends the call
\* with that same error: it is the last request, and the deletes and creates
\* applied before it stay applied.
C5_CreateFailureAborts ==
  SetProcess =>
    \A i \in Requests :
      (cur.trace[i].op = "create" /\ cur.trace[i].err # ErrNil)
        => /\ i = Len(cur.trace)
           /\ cur.err = cur.trace[i].err
           /\ remote = [cur.pre EXCEPT
                          ![Target] = {e \in @ : e.Name \notin DeletedNames}
                                        \cup CreatedEntities]

C5_Witness ==
  /\ SetProcess
  /\ Len(cur.add) = 3
  /\ Len(cur.trace) = 2
  /\ cur.trace[1].op = "create" /\ cur.trace[1].err = ErrNil
  /\ cur.trace[2].op = "create" /\ cur.trace[2].err = HTTPError(404)
  /\ cur.err = HTTPError(404)
  /\ Cardinality(remote[Target]) = Cardinality(cur.pre[Target]) + 1

\* The call before the current one was a Process against the same version,
\* and no request of the current call meets an injected failure.
Rerun ==
  /\ SetProcess
  /\ prev.op = "process"
  /\ prev.ver = cur.ver
  /\ NoneInjected

\* C6 as stated: a second Process with the same (old, new) against the same
\* version, after a first that returned nil, returns nil and leaves the version
\* as it was.
C6_Original ==
  (Rerun /\ prev.ok) => (cur.err = ErrNil /\ remote = cur.pre)

\* C6: a second Process with the same (old, new) against the same version,
\* after a first that returned nil, returns nil and leaves the version as it
\* was, when new minus old is empty: its deletes are answered not-found.
C6_RerunOfRemovals ==
  (Rerun /\ prev.ok /\ {b \in New : b \notin Old} = {})
    => (cur.err = ErrNil /\ remote = cur.pre)

C6_Witness ==
  /\ Rerun
  /\ prev.ok
  /\ {b \in New : b \notin Old} = {}
  /\ Len(cur.trace) = 2
  /\ \A i \in Requests : cur.trace[i].err = HTTPError(404)
  /\ cur.err = ErrNil

C8_Scoping ==
  /\ cur.op = "process" =>
       /\ \A i \in Requests :
            /\ cur.trace[i].op \in {"delete", "create", "update"}
            /\ cur.trace[i].opts.ServiceID = cur.dpre.id
            /\ cur.trace[i].opts.ServiceVersion = cur.ver
       /\ \A sc \in Scopes : sc # Target => remote[sc] = cur.pre[sc]
  /\ cur.op = "read" =>
       /\ Len(cur.trace) = 1
       /\ cur.trace[1].op = "list"
       /\ cur.trace[1].opts.ServiceID = cur.dpre.id
       /\ cur.trace[1].opts.ServiceVersion = s.ActiveVersion.Number
       /\ remote = cur.pre

C8_Witness ==
  /\ cur.op = "process"
  /\ cur.ver # s.ActiveVersion.Number
  /\ Applied(cur.trace, "delete") # {}
  /\ Applied(cur.trace, "create") # {}
  /\ remote[Target] # cur.pre[Target]

\* C9: when the list/get request of Read fails, Read returns an error that
\* carries the service id and the version and leaves the caller's state as it
\* was; when storing the result fails, Read logs a warning and returns nil.
C9_ReadErrors ==
  cur.op = "read" =>
    /\ cur.trace[1].err # ErrNil =>
         /\ cur.err.kind = "errorf"
         /\ cur.err.id = cur.dpre.id
         /\ cur.err.version = s.ActiveVersion.Number
         /\ cur.err.cause = cur.trace[1].err
         /\ d = cur.dpre
    /\ cur.trace[1].err = ErrNil => cur.err = ErrNil
    /\ cur.log # <<>> =>
         /\ cur.err = ErrNil
         /\ cur.log[1].level = "WARN"
         /\ d = cur.dpre

C9_Witness ==
  /\ cur.op = "read"
  /\ cur.log # <<>>
  /\ cur.listed # <<>>
  /\ cur.err = ErrNil

\* The fields of a remote entity, by type, and the keys they are stored under.
StringFields(kind) ==
  IF kind = "acl"
  THEN {<<"acl_id", "ID">>, <<"name", "Name">>}
  ELSE {<<"name", "Name">>, <<"token", "Token">>, <<"format", "Format">>,
        <<"response_condition", "ResponseCondition">>,
        <<"placement", "Placement">>}
UintFields(kind) ==
  IF kind = "acl" THEN {}
  ELSE {<<"port", "Port">>, <<"format_version", "FormatVersion">>}
BoolFields(kind) == IF kind = "acl" THEN {} ELSE {<<"use_tls", "UseTLS">>}

\* C10: the normalizer returns one mapping per remote entity, in list order;
\* a string field that is empty is absent from the mapping, every other field
\* is present with the remote value, numbers and booleans also when zero.
C10_Flatten ==
  (cur.op = "read" /\ h \in {"acl", "logentries"}) =>
    /\ Len(cur.flat) = Len(cur.listed)
    /\ \A i \in 1..Len(cur.listed) :
         LET e == cur.listed[i]
             m == cur.flat[i]
         IN /\ \A f \in StringFields(h) :
                 IF e[f[2]] = "" THEN f[1] \notin DOMAIN m
                 ELSE f[1] \in DOMAIN m /\ m[f[1]] = Str(e[f[2]])
            /\ \A f \in UintFields(h) :
                 f[1] \in DOMAIN m /\ m[f[1]] = Uint(e[f[2]])
            /\ \A f \in BoolFields(h) :
                 f[1] \in DOMAIN m /\ m[f[1]] = Bool(e[f[2]])
            /\ DOMAIN m \subseteq
                 {f[1] : f \in StringFields(h) \cup UintFields(h) \cup BoolFields(h)}

C10_Witness ==
  /\ cur.op = "read"
  /\ h = "logentries"
  /\ Len(cur.listed) = 2
  /\ cur.listed[1].Name = "b"
  /\ \E i \in 1..Len(cur.listed) :
       /\ cur.listed[i].Format = ""
       /\ cur.listed[i].Port = 0
       /\ cur.listed[i].UseTLS = FALSE
       /\ cur.listed[i].FormatVersion = 0
       /\ DOMAIN cur.flat[i] =
            {"name", "port", "use_tls", "token", "format_version",
             "response_condition", "placement"}

\* The current call is a Read of the version that the call before it, a
\* Process without error, wrote to.
ReadAfterProcess ==
  /\ cur.op = "read"
  /\ h \in {"acl", "logentries"}
  /\ prev.op = "process"
  /\ prev.ok
  /\ prev.ver = cur.ver

\* The mapping m reproduces the fields fs of the declared block b: an empty
\* string is absent, every other value is present and equal.
Reproduces(b, m, fs) ==
  /\ \A f \in fs \cap StringFields(h) :
       IF b[f[1]] = "" THEN f[1] \notin DOMAIN m
       ELSE f[1] \in DOMAIN m /\ m[f[1]].val = b[f[1]]
  /\ \A f \in fs \cap (UintFields(h) \cup BoolFields(h)) :
       f[1] \in DOMAIN m /\ m[f[1]].val = b[f[1]]

AllFields == StringFields(h) \cup UintFields(h) \cup BoolFields(h)
\* The fields of a block that its create request carries.
RequestFields == AllFields \ {<<"acl_id", "ID">>}

\* C11 as stated: the normalized entity of every created block reproduces
\* every field of the block, the computed acl_id of an ACL block included.
C11_Original ==
  ReadAfterProcess =>
    \A b \in New \ Old : \A i \in 1..Len(cur.listed) :
      cur.listed[i].Name = b.name => Reproduces(b, cur.flat[i], AllFields)

\* C11: normalizing the remote entity produced by creating a declared block
\* reproduces the block's value for every field the create request carries
\* that is not an empty string, and leaves out every such field that was an
\* empty string; the acl_id of an ACL is the identifier of the remote entity.
C11_RoundTrip ==
  ReadAfterProcess =>
    \A b \in New \ Old : \A i \in 1..Len(cur.listed) :
      cur.listed[i].Name = b.name =>
        /\ Reproduces(b, cur.flat[i], RequestFields)
        /\ h = "acl" => cur.flat[i].acl_id = Str(cur.listed[i].ID)

C11_Witness ==
  /\ ReadAfterProcess
  /\ h = "logentries"
  /\ prev.created = 2
  /\ \E b \in New \ Old : \E i \in 1..Len(cur.listed) :
       /\ cur.listed[i].Name = b.name
       /\ b.format = ""
       /\ b.placement = "none"
       /\ b.port = 0
       /\ "format" \notin DOMAIN cur.flat[i]


OpsIssued == {cur.trace[i].op : i \in Requests}

\* C12 as stated: no Process of any handler, the package handler included,
\* issues a request other than a delete or a create.
C12_Original ==
  cur.op = "process" => OpsIssued \subseteq {"delete", "create"}

\* C12: a Process of the ACL or Logentries handler issues only deletes and
\* creates and never an update in place; a Process of the package handler
\* issues no delete and no create but at most one update of the package.
C12_DeleteAndCreateOnly ==
  cur.op = "process" =>
    IF h = "package"
    THEN OpsIssued \subseteq {"update"} /\ Len(cur.trace) <= 1
    ELSE OpsIssued \subseteq {"delete", "create"}

C12_Witness ==
  /\ SetProcess
  /\ h = "acl"
  /\ OpsIssued = {"delete", "create"}
  /\ cur.err = ErrNil
  /\ Len(cur.trace) = 2

\* The create request Process builds for the block b.
CreateInputOf(b) ==
  IF h = "acl" THEN CreateACLInput(cur.dpre, cur.ver, b)
  ELSE CreateLogentriesInput(cur.dpre, cur.ver, b)

\* The keys that old and new both hold, with at least one different field.
ChangedKeys ==
  {k \in {"a", "b"} :
     \E bo \in Old, bn \in New : bo.name = k /\ bn.name = k /\ bo # bn}
DeletesFor(k) ==
  {i \in Requests : cur.trace[i].op = "delete" /\ cur.trace[i].opts.Name = k}
CreatesFor(k) ==
  {i \in Requests : cur.trace[i].op = "create" /\ cur.trace[i].opts.Name = k}

\* One delete for k, then one create for k carrying a new block of key k.
ReplacedOnce(k) ==
  /\ Cardinality(DeletesFor(k)) = 1
  /\ Cardinality(CreatesFor(k)) = 1
  /\ \A i \in CreatesFor(k) :
       /\ \E bn \in New : bn.name = k /\ cur.trace[i].opts = CreateInputOf(bn)
       /\ \A j \in DeletesFor(k) : j < i

\* C13 as stated: every key with a changed block is deleted once and then
\* created once by a Process that returns nil, also when a key occurs twice
\* in old or in new.
C13_Original ==
  (SetProcess /\ cur.err = ErrNil) => \A k \in ChangedKeys : ReplacedOnce(k)

\* C13: when no two blocks of old and no two blocks of new share a key, and
\* old and new hold a block of key k that differs in a field, a Process that
\* returns nil has issued exactly one delete for k and exactly one create for
\* k with the fields of the new block, the delete before the create.
C13_ChangedBlockReplaced ==
  (SetProcess /\ cur.err = ErrNil /\ KeyUnique(Old) /\ KeyUnique(New)) =>
    \A k \in ChangedKeys : ReplacedOnce(k)

C13_Witness ==
  /\ SetProcess
  /\ h = "logentries"
  /\ cur.err = ErrNil
  /\ KeyUnique(Old) /\ KeyUnique(New)
  /\ "a" \in ChangedKeys
  /\ Len(cur.rm) = 2
  /\ cur.trace[1].opts.Name = "b"
  /\ ReplacedOnce("a")

\* The block that the i-th request of the current call is about.
SubjectOf(i) ==
  IF i <= Len(cur.rm) THEN <<"remove", cur.rm[i]>>
  ELSE <<"add", cur.add[i - Len(cur.rm)]>>

\* The request Process builds for a subject.
RequestOf(sub) ==
  IF sub[1] = "remove"
  THEN [op |-> "delete", opts |-> DeleteInput(cur.dpre, cur.ver, sub[2])]
  ELSE [op |-> "create", opts |-> CreateInputOf(sub[2])]

\* C14: a Process call issues its requests one after the other, the next one
\* only after the answer to the one before it was accepted; every request is
\* about a block of toRemove or toAdd of its own, so no block is the subject
\* of two requests, nothing is retried, and the call returns after at most
\* |old minus new| + |new minus old| requests.
C14_OneRequestPerBlock ==
  SetProcess =>
    /\ Len(cur.trace) <= Cardinality(Old \ New) + Cardinality(New \ Old)
    /\ Len(cur.trace) <= Len(cur.rm) + Len(cur.add)
    /\ \A i \in Requests :
         /\ cur.trace[i].op = RequestOf(SubjectOf(i)).op
         /\ cur.trace[i].opts = RequestOf(SubjectOf(i)).opts
         /\ i < Len(cur.trace) =>
              IF cur.trace[i].op = "delete"
              THEN cur.trace[i].err \in {ErrNil, HTTPError(404)}
              ELSE cur.trace[i].err = ErrNil
    /\ \A i, j \in Requests : i # j => SubjectOf(i) # SubjectOf(j)
    /\ cur.err # ErrNil => cur.err = cur.trace[Len(cur.trace)].err

C14_Witness ==
  /\ SetProcess
  /\ Len(cur.trace) = 3
  /\ Cardinality(Old \ New) + Cardinality(New \ Old) = 3
  /\ cur.trace[1].err = HTTPError(404)
  /\ cur.trace[3].injected

EntitiesNamed(R, k) == {e \in R : e.Name = k}

\* C15: when no two blocks of old and no two blocks of new share a key, a
\* block that is in old and in new with equal fields is the subject of no
\* request of Process, and the version holds after the call the entity of
\* that key that it held before, whatever else old and new contain.
C15_UnchangedBlockUntouched ==
  (SetProcess /\ KeyUnique(Old) /\ KeyUnique(New)) =>
    \A b \in Old \cap New :
      /\ \A i \in Requests : cur.trace[i].opts.Name # b.name
      /\ b \notin Range(cur.rm) \cup Range(cur.add)
      /\ EntitiesNamed(remote[Target], b.name)
           = EntitiesNamed(cur.pre[Target], b.name)

C15_Witness ==
  /\ SetProcess
  /\ h = "logentries"
  /\ KeyUnique(Old) /\ KeyUnique(New)
  /\ cur.err = ErrNil
  /\ Applied(cur.trace, "delete") # {}
  /\ Applied(cur.trace, "create") # {}
  /\ \E b \in Old \cap New :
       /\ EntitiesNamed(remote[Target], b.name) = {EntityOfBlock(h, b)}
       /\ remote[Target] # cur.pre[Target]

\* The declared blocks of a collection that may be nil.
BlocksIn(v) == IF v = Nil THEN {} ELSE v

\* C16: a nil old or new collection is read as the empty collection and is no
\* error.  With nil old Process removes nothing, issues no delete and adds
\* every block of new, one create per block when no request fails; with nil
\* new it adds nothing, issues no create and removes every block of old, one
\* delete per block when no request fails.  An error Process returns is the
\* answer to a request it issued.
C16_NilIsEmpty ==
  SetProcess =>
    /\ cur.dpre.os = Nil =>
         /\ cur.rm = <<>>
         /\ \A i \in Requests : cur.trace[i].op = "create"
         /\ Range(cur.add) = BlocksIn(cur.dpre.ns)
         /\ Len(cur.add) = Cardinality(BlocksIn(cur.dpre.ns))
         /\ cur.err = ErrNil => Len(cur.trace) = Len(cur.add)
    /\ cur.dpre.ns = Nil =>
         /\ cur.add = <<>>
         /\ \A i \in Requests : cur.trace[i].op = "delete"
         /\ Range(cur.rm) = BlocksIn(cur.dpre.os)
         /\ Len(cur.rm) = Cardinality(BlocksIn(cur.dpre.os))
         /\ cur.err = ErrNil => Len(cur.trace) = Len(cur.rm)
    /\ cur.err # ErrNil =>
         /\ cur.trace # <<>>
         /\ cur.err = cur.trace[Len(cur.trace)].err

C16_Witness ==
  /\ SetProcess
  /\ cur.dpre.os = Nil
  /\ cur.dpre.ns # Nil
  /\ Cardinality(cur.dpre.ns) = 2
  /\ cur.err = ErrNil
  /\ Len(cur.trace) = 2

C16_WitnessNilNew ==
  /\ SetProcess
  /\ cur.dpre.ns = Nil
  /\ cur.dpre.os # Nil
  /\ Cardinality(cur.dpre.os) = 2
  /\ cur.err = ErrNil
  /\ Len(cur.trace) = 2

\* d.Get("package.0.filename").(string)
FilenameOf(dd) == IF Get(dd) = <<>> THEN "" ELSE Get(dd)[1].filename

PackageReadDone == cur.op = "read" /\ h = "package"

\* C17: a Read of the package handler that gets the remote package returns
\* exactly one mapping; its filename is the filename the caller held before
\* the call, its source_code_hash is the hash sum of the remote package, and
\* the filename the caller holds after the call is the one held before it.
\* A Read that fails returns no mapping and leaves the caller's state alone.
C17_PackageReadKeepsFilename ==
  PackageReadDone =>
    /\ FilenameOf(d) = FilenameOf(cur.dpre)
    /\ IF cur.err = ErrNil
       THEN /\ Len(cur.flat) = 1
            /\ Len(cur.listed) = 1
            /\ cur.flat[1].filename = FilenameOf(cur.dpre)
            /\ cur.flat[1].source_code_hash = cur.listed[1].Metadata.HashSum
            /\ DOMAIN cur.flat[1] = {"filename", "source_code_hash"}
            /\ cur.log = <<>> => Get(d) = cur.flat
       ELSE cur.flat = <<>> /\ d = cur.dpre

C17_Witness ==
  /\ PackageReadDone
  /\ cur.err = ErrNil
  /\ cur.log = <<>>
  /\ Get(cur.dpre) = <<[filename |-> "p2.tar.gz", source_code_hash |-> "h2"]>>
  /\ Get(d) = <<[source_code_hash |-> "h1", filename |-> "p2.tar.gz"]>>

AllSucceeded == cur.err = ErrNil /\ \A i \in Requests : cur.trace[i].err = ErrNil

\* The entity e carries the fields of the block b that a create request has.
CarriesFieldsOf(e, b) == \A f \in RequestFields : e[f[2]] = b[f[1]]

\* C18: when the latest version holds exactly one entity per block of old
\* before the call, keys are unique within old and within new, and every
\* request of the call succeeds, then after Process has returned nil the
\* version holds exactly one entity per block of new, carrying the fields the
\* create request takes from that block, and no entity of a key that only old
\* has.
C18_SyncedToNew ==
  (SetProcess /\ HoldsExactly(h, cur.pre[Target], Old) /\ KeyUnique(New)
     /\ AllSucceeded) =>
    /\ HoldsExactly(h, remote[Target], New)
    /\ Cardinality(remote[Target]) = Cardinality(New)
    /\ \A b \in New :
         \E e \in remote[Target] :
           /\ CarriesFieldsOf(e, b)
           /\ EntitiesNamed(remote[Target], b.name) = {e}
    /\ \A b \in Old :
         (\A n \in New : n.name # b.name) =>
           EntitiesNamed(remote[Target], b.name) = {}

C18_Witness ==
  /\ SetProcess
  /\ h = "logentries"
  /\ HoldsExactly(h, cur.pre[Target], Old)
  /\ KeyUnique(New)
  /\ AllSucceeded
  /\ Len(cur.rm) = 2
  /\ Len(cur.add) = 1
  /\ Names(remote[Target]) = {"a"}
  /\ HoldsExactly(h, remote[Target], New)

====
